---------------------------- MODULE Spec2Model ----------------------------
(***************************************************************************)
(* Model of the Kalshi proxy (Cloudflare Pages Functions), its request     *)
(* signing and key import, and of the client-side market normalizer.       *)
(*                                                                         *)
(* Strings that the code inspects or concatenates are sequences of         *)
(* one-character strings; opaque strings (header values, bodies, key ids)  *)
(* are TLA+ strings.                                                       *)
(***************************************************************************)
EXTENDS Integers, Sequences, FiniteSets, TLC

VARIABLES
    env,        \* context.env: KALSHI_API_KEY_ID, KALSHI_PRIVATE_KEY
    deployed,   \* which functions module serves /api/kalshi/*
    now,        \* the clock read by Date.now()
    req,        \* the in-flight handler invocations, one record per request
    keyIn,      \* importPrivateKey: the decoded bytes (binaryDer)
    keyOut,     \* importPrivateKey: the bytes handed to the second importKey
    keyPc,      \* importPrivateKey: position
    market,     \* normalizeMarket: the raw market given
    normalized, \* normalizeMarket: the record returned
    normPc,     \* normalizeMarket: position
    view,       \* ranking: which of the three views was called
    limitArg,   \* ranking: the limit argument of the call
    fetched,    \* ranking: the array marketsApi.getMarkets resolved with
    chain,      \* ranking: the newest array allocated by map/filter/slice
    holds,      \* ranking: which array the method chain is applied to
    result,     \* ranking: the array the view returns
    rankPc      \* ranking: position

vars == <<env, deployed, now, req, keyIn, keyOut, keyPc, market, normalized, normPc,
          view, limitArg, fetched, chain, holds, result, rankPc>>
proxyVars == <<env, deployed, now, req>>
keyVars == <<keyIn, keyOut, keyPc>>
normVars == <<market, normalized, normPc>>
rankVars == <<view, limitArg, fetched, chain, holds, result, rankPc>>

\* no ranking view is being computed
RankOff ==
    /\ view = "none" /\ limitArg = [given |-> FALSE]
    /\ fetched = <<>> /\ chain = <<>> /\ holds = "none"
    /\ result = <<>> /\ rankPc = "off"

---------------------------------------------------------------------------
(* Bounds *)

MaxClock == 10
MaxKeyLen == 260
MaxCents == 3
MaxMarkets == 3
MaxLimit == 2

\* the handler invocations that may be in flight together
Requests == {1, 2}

---------------------------------------------------------------------------
(* String primitives *)

\* s.startsWith(pat) at offset i (1-based)
MatchAt(s, pat, i) ==
    /\ i + Len(pat) - 1 <= Len(s)
    /\ \A k \in 1..Len(pat) : s[i + k - 1] = pat[k]

\* s.indexOf(pat) + 1, 0 when absent
IndexOf(s, pat) ==
    LET hits == {i \in 1..(Len(s) + 1) : MatchAt(s, pat, i)}
    IN  IF hits = {} THEN 0 ELSE CHOOSE i \in hits : \A j \in hits : i <= j

\* s.replace(pat, rep) with a string pattern: the first occurrence only
ReplaceFirst(s, pat, rep) ==
    LET i == IndexOf(s, pat)
    IN  IF i = 0 THEN s
        ELSE SubSeq(s, 1, i - 1) \o rep \o SubSeq(s, i + Len(pat), Len(s))

\* s.split(sep)[0] for a one-character separator
SplitHead(s, sep) ==
    LET i == IndexOf(s, <<sep>>)
    IN  IF i = 0 THEN s ELSE SubSeq(s, 1, i - 1)

DigitChar(d) == <<"0", "1", "2", "3", "4", "5", "6", "7", "8", "9">>[d + 1]

\* Number.prototype.toString() of a non-negative integer
RECURSIVE NumToString(_)
NumToString(n) ==
    IF n < 10 THEN <<DigitChar(n)>>
    ELSE NumToString(n \div 10) \o <<DigitChar(n % 10)>>

\* {...a, ...b}: the later spread wins
Spread(a, b) == b @@ a

---------------------------------------------------------------------------
(* Module constants of the proxy *)

KALSHI_API_URL ==
    <<"h","t","t","p","s",":","/","/","a","p","i",".","e","l","e","c","t",
      "i","o","n","s",".","k","a","l","s","h","i",".","c","o","m",
      "/","t","r","a","d","e","-","a","p","i","/","v","2">>

TradeApiPrefix == <<"/","t","r","a","d","e","-","a","p","i","/","v","2","/">>

MountPrefix == <<"/","a","p","i","/","k","a","l","s","h","i","/">>

corsHeaders ==
    ("Access-Control-Allow-Origin" :> "*") @@
    ("Access-Control-Allow-Methods" :>
        (IF deployed = "signing" THEN "GET, POST, PUT, DELETE, OPTIONS"
                                 ELSE "GET, OPTIONS")) @@
    ("Access-Control-Allow-Headers" :> "Content-Type") @@
    ("Access-Control-Max-Age" :> "86400")

JsonContentType == ("Content-Type" :> "application/json")

---------------------------------------------------------------------------
(* Key Importer: bytes are integers 0..255 *)

\* A Uint8Array element: the stored value is the number modulo 256
U8(x) == x % 256

\* x >> 8 for a non-negative x
Shr8(x) == x \div 256

RsaOid == <<42, 134, 72, 134, 247, 13, 1, 1, 1>>

\* the 26 elements of the array literal pkcs8Header
pkcs8Header(binaryDer) ==
    << 48, 130,
       U8(Shr8(Len(binaryDer) + 26)), U8(Len(binaryDer) + 26),
       2, 1, 0,
       48, 13,
       6, 9 >>
    \o RsaOid \o
    << 5, 0,
       4, 130,
       U8(Shr8(Len(binaryDer))), U8(Len(binaryDer)) >>

\* new Uint8Array(header.length + der.length); set(header); set(der, header.length)
pkcs8Der(binaryDer) == pkcs8Header(binaryDer) \o binaryDer

\* The value of a two-byte big-endian DER length at b[i], b[i+1]
Len16(b, i) == b[i] * 256 + b[i + 1]

\* What importKey("pkcs8", b) needs of the DER framing of an RSA key held in
\* two-byte long-form lengths: SEQUENCE { INTEGER 0, AlgorithmIdentifier
\* { rsaEncryption, NULL }, OCTET STRING }, each declared length equal to the
\* number of bytes it frames.
WellFormedPkcs8(b) ==
    /\ Len(b) >= 26
    /\ b[1] = 48 /\ b[2] = 130
    /\ Len16(b, 3) = Len(b) - 4
    /\ SubSeq(b, 5, 7) = <<2, 1, 0>>
    /\ SubSeq(b, 8, 9) = <<48, 13>>
    /\ SubSeq(b, 10, 11) = <<6, 9>>
    /\ SubSeq(b, 12, 20) = RsaOid
    /\ SubSeq(b, 21, 22) = <<5, 0>>
    /\ b[23] = 4 /\ b[24] = 130
    /\ Len16(b, 25) = Len(b) - 26

\* crypto.subtle.importKey("pkcs8", b, RSA-PSS/SHA-256, false, ["sign"]):
\* resolves with a key handle or rejects
importKey(b) ==
    IF WellFormedPkcs8(b) THEN [ok |-> TRUE, alg |-> "RSA-PSS", hash |-> "SHA-256"]
    ELSE [ok |-> FALSE, alg |-> "RSA-PSS", hash |-> "SHA-256"]

\* A PKCS#1 RSAPrivateKey of n bytes (content bytes are arbitrary here; the
\* framing that matters is that it does not start like a PKCS#8 structure)
Pkcs1Bytes(n, fill) == [i \in 1..n |-> IF i = 1 THEN 48 ELSE U8(fill + i)]

\* A PKCS#8 PrivateKeyInfo as a key generator emits it around a PKCS#1 body
Pkcs8Bytes(body) ==
    << 48, 130, U8(Shr8(Len(body) + 22)), U8(Len(body) + 22),
       2, 1, 0, 48, 13, 6, 9 >> \o RsaOid \o
    << 5, 0, 4, 130, U8(Shr8(Len(body))), U8(Len(body)) >> \o body

KeyFills == {0, 255}

KeyInputs ==
    {Pkcs1Bytes(n, f) : n \in 0..MaxKeyLen, f \in KeyFills}
    \cup {Pkcs8Bytes(Pkcs1Bytes(n, 0)) : n \in {1, MaxKeyLen}}

KeyInit ==
    /\ keyIn \in KeyInputs
    /\ keyOut = <<>>
    /\ keyPc = "try"

\* try { return await importKey("pkcs8", binaryDer) }
ImportDirect ==
    /\ keyPc = "try"
    /\ importKey(keyIn).ok
    /\ keyPc' = "imported"
    /\ UNCHANGED <<keyIn, keyOut, proxyVars, normVars, rankVars>>

\* catch { build pkcs8Header and pkcs8Der; importKey("pkcs8", pkcs8Der) is called }
ImportFallback ==
    /\ keyPc = "try"
    /\ ~importKey(keyIn).ok
    /\ keyOut' = pkcs8Der(keyIn)
    /\ keyPc' = "wrapped"
    /\ UNCHANGED <<keyIn, proxyVars, normVars, rankVars>>

\* return await importKey("pkcs8", pkcs8Der): resolves, or rejects out of
\* importPrivateKey
ImportWrapped ==
    /\ keyPc = "wrapped"
    /\ keyPc' = IF importKey(keyOut).ok THEN "imported" ELSE "rejected"
    /\ UNCHANGED <<keyIn, keyOut, proxyVars, normVars, rankVars>>

KeyNext == ImportDirect \/ ImportFallback \/ ImportWrapped

---------------------------------------------------------------------------
(* Proxy Dispatcher and Request Signer *)

\* JavaScript truthiness of an environment string: undefined and "" are falsy
Truthy(v) == v \notin {"undefined", ""}

\* The credential configurations of a deployment: <<KALSHI_API_KEY_ID,
\* KALSHI_PRIVATE_KEY>>. A PEM is named by what it holds.
Environments ==
    { <<"undefined", "undefined">>, <<"key-id", "">>, <<"undefined", "PEM-PKCS8">>,
      <<"key-id", "PEM-PKCS8">>, <<"key-id", "PEM-PKCS1">>, <<"key-id", "PEM-NOT-BASE64">> }

SamplePkcs1 == <<48, 3, 2, 1, 0>>

\* pemKey.replace(markers).replace(/\s/g, ""), then atob: the decoded bytes,
\* or atob throws on characters outside the base64 alphabet
DecodePem(pem) ==
    CASE pem = "PEM-PKCS8" -> [threw |-> FALSE, der |-> Pkcs8Bytes(SamplePkcs1)]
      [] pem = "PEM-PKCS1" -> [threw |-> FALSE, der |-> SamplePkcs1]
      [] OTHER -> [threw |-> TRUE, der |-> <<>>]

Methods == {"GET", "POST", "OPTIONS"}

\* the method literal passed to getAuthHeaders
MethodChars(m) == IF m = "GET" THEN <<"G", "E", "T">> ELSE <<"P", "O", "S", "T">>

SubPaths == { <<"m">>, <<"e", "/", "1">> }
Queries == { <<>>, <<"?", "x", "=", "1">>, <<"?", "x", "=", "2">> }

\* path and query of context.request.url (the origin plays no part)
InboundUrls == { MountPrefix \o p \o q : p \in SubPaths, q \in Queries }

\* new URL(u): pathname up to the first "?", search from it on ("" for a bare "?")
ParseUrl(u) ==
    LET i == IndexOf(u, <<"?">>)
    IN  [ pathname |-> IF i = 0 THEN u ELSE SubSeq(u, 1, i - 1),
          search   |-> IF i = 0 \/ i = Len(u) THEN <<>> ELSE SubSeq(u, i, Len(u)) ]

PathPartsOfRawUrl(u) == ReplaceFirst(u, MountPrefix, <<>>)

\* url.pathname.replace("/api/kalshi/", "")
PathParts(u) == ReplaceFirst(ParseUrl(u).pathname, MountPrefix, <<>>)

\* `/trade-api/v2/${pathParts}`
FullPath(u) == TradeApiPrefix \o PathParts(u)

\* `${KALSHI_API_URL}/${pathParts}${url.search}`
TargetUrl(u) == KALSHI_API_URL \o <<"/">> \o PathParts(u) \o ParseUrl(u).search

\* `${timestamp}${method}${pathWithoutQuery}` with pathWithoutQuery = path.split("?")[0]
Message(timestamp, method, path) == timestamp \o method \o SplitHead(path, "?")

\* signMessage: the base64 signature, known by the key scheme and what it signs
Signature(message) == [alg |-> "RSA-PSS", saltLength |-> 32, over |-> message]

\* the record getAuthHeaders returns
AuthHeaders(apiKeyId, timestamp, signature) ==
    ("KALSHI-ACCESS-KEY" :> apiKeyId) @@
    ("KALSHI-ACCESS-TIMESTAMP" :> timestamp) @@
    ("KALSHI-ACCESS-SIGNATURE" :> signature)

NoHeaders == [h \in {} |-> ""]

\* headers of the upstream fetch
ForwardHeaders(authHeaders) ==
    Spread(JsonContentType @@ ("User-Agent" :> "KalshiAI/1.0"), authHeaders)

\* what the upstream may answer: <<status, body text>>
UpstreamAnswers ==
    { <<200, "{\"markets\":[]}">>, <<404, "{\"error\":\"not_found\"}">>,
      <<204, "">>, <<500, "{\"error\":\"internal\"}">> }

NullBodyStatus == {101, 204, 205, 304}

NullBody == [kind |-> "null"]
TextBody(t) == [kind |-> "text", text |-> t]
\* JSON.stringify of an error object
JsonBody(fields) == [kind |-> "json", json |-> fields]

NoResponse == [status |-> 0, headers |-> NoHeaders, body |-> NullBody]

\* new Response(body, {status, headers}): a TypeError when a body is given with
\* a null-body status, a RangeError for a status outside 200..599
NewResponse(body, status, headers) ==
    IF \/ status \notin 200..599
       \/ (body # NullBody /\ status \in NullBodyStatus)
    THEN [threw |-> TRUE, response |-> NoResponse]
    ELSE [threw |-> FALSE,
          response |-> [status |-> status, headers |-> headers, body |-> body]]

Idle ==
    [ pc |-> "idle", method |-> "", url |-> <<>>, body |-> "",
      clockReads |-> 0, timestamp |-> <<>>, message |-> <<>>,
      imports |-> 0, signs |-> 0, authHeaders |-> NoHeaders,
      fetches |-> 0, sent |-> [url |-> <<>>, method |-> "", headers |-> NoHeaders, body |-> NullBody],
      upstream |-> <<0, "">>, response |-> NoResponse, fault |-> "none", threw |-> FALSE ]

ProxyInit ==
    /\ \E e \in Environments :
           env = [KALSHI_API_KEY_ID |-> e[1], KALSHI_PRIVATE_KEY |-> e[2]]
    /\ deployed \in {"signing", "plain"}
    /\ now = 9
    /\ req = [r \in Requests |-> Idle]

\* the platform routes an inbound request to the handler of its method
Arrive(r) ==
    /\ req[r].pc = "idle"
    /\ \E m \in Methods, u \in InboundUrls :
          /\ (deployed = "plain") => m # "POST"
          /\ req' = [req EXCEPT ![r] =
                 [@ EXCEPT !.pc = "start", !.method = m, !.url = u,
                           !.body = IF m = "POST" THEN "{\"action\":\"buy\"}" ELSE ""]]
    /\ UNCHANGED <<env, deployed, now, keyVars, normVars, rankVars>>

\* time passes
Tick ==
    /\ now < MaxClock
    /\ now' = now + 1
    /\ UNCHANGED <<env, deployed, req, keyVars, normVars, rankVars>>

Finish(q, resp) == [q EXCEPT !.pc = "done", !.response = resp]

CatchBlockRethrows(q, what) ==
    [q EXCEPT !.pc = "done", !.fault = what, !.threw = TRUE]

\* the catch block of the handler: console.error, then the 500 response
CatchBlock(q, what) ==
    LET errBody ==
            IF q.method = "POST" THEN JsonBody([error |-> "Failed to post to Kalshi API"])
            ELSE IF deployed = "signing"
                 THEN JsonBody([error |-> "Failed to fetch from Kalshi API", details |-> what])
                 ELSE JsonBody([error |-> "Failed to fetch from Kalshi API"])
        made == NewResponse(errBody, 500, Spread(corsHeaders, JsonContentType))
    IN  [q EXCEPT !.pc = "done", !.fault = what,
                  !.response = made.response, !.threw = made.threw]

OnRequestOptionsAnswers200(r) ==
    /\ req[r].pc = "start" /\ req[r].method = "OPTIONS"
    /\ req' = [req EXCEPT ![r] =
          Finish(@, NewResponse(TextBody(""), 200, corsHeaders).response)]
    /\ UNCHANGED <<env, deployed, now, keyVars, normVars, rankVars>>

\* onRequestOptions
OnRequestOptions(r) ==
    /\ req[r].pc = "start" /\ req[r].method = "OPTIONS"
    /\ LET made == NewResponse(NullBody, 204, corsHeaders)
       IN  req' = [req EXCEPT ![r] = [Finish(@, made.response) EXCEPT !.threw = made.threw]]
    /\ UNCHANGED <<env, deployed, now, keyVars, normVars, rankVars>>

GetCredentialsPresentKeyIdOnly == Truthy(env.KALSHI_API_KEY_ID)

\* onRequestGet: if (KALSHI_API_KEY_ID && KALSHI_PRIVATE_KEY)
GetCredentialsPresent == Truthy(env.KALSHI_API_KEY_ID) /\ Truthy(env.KALSHI_PRIVATE_KEY)

PostCredentialsMissingBoth == ~Truthy(env.KALSHI_API_KEY_ID) /\ ~Truthy(env.KALSHI_PRIVATE_KEY)

\* onRequestPost: if (!KALSHI_API_KEY_ID || !KALSHI_PRIVATE_KEY)
PostCredentialsMissing == ~Truthy(env.KALSHI_API_KEY_ID) \/ ~Truthy(env.KALSHI_PRIVATE_KEY)

\* the handler takes the signing path
TakesSigningPath(q) ==
    /\ deployed = "signing"
    /\ IF q.method = "GET" THEN GetCredentialsPresent ELSE ~PostCredentialsMissing

\* onRequestPost: if (!KALSHI_API_KEY_ID || !KALSHI_PRIVATE_KEY) return 401
PostWithoutCredentials(r) ==
    /\ req[r].pc = "start" /\ req[r].method = "POST"
    /\ PostCredentialsMissing
    /\ LET made == NewResponse(JsonBody([error |-> "API credentials not configured"]),
                               401, Spread(corsHeaders, JsonContentType))
       IN  req' = [req EXCEPT ![r] = [Finish(@, made.response) EXCEPT !.threw = made.threw]]
    /\ UNCHANGED <<env, deployed, now, keyVars, normVars, rankVars>>

\* fetch(targetUrl, {method, headers, body}) is called
IssueFetch(q) ==
    [q EXCEPT !.pc = "fetching", !.fetches = @ + 1,
              !.sent = [ url |-> TargetUrl(q.url), method |-> q.method,
                         headers |-> ForwardHeaders(q.authHeaders),
                         body |-> IF q.method = "POST" THEN TextBody(q.body) ELSE NullBody ]]

\* onRequestGet with authHeaders left {}: the plain module, or the signing
\* module when KALSHI_API_KEY_ID && KALSHI_PRIVATE_KEY is falsy
GetUnsigned(r) ==
    /\ req[r].pc = "start" /\ req[r].method = "GET"
    /\ ~TakesSigningPath(req[r])
    /\ req' = [req EXCEPT ![r] = IssueFetch(@)]
    /\ UNCHANGED <<env, deployed, now, keyVars, normVars, rankVars>>

\* getAuthHeaders up to its first await: Date.now(), the message, and
\* importPrivateKey up to importKey("pkcs8", binaryDer)
BeginAuth(q) ==
    LET timestamp == NumToString(now)
    IN  [q EXCEPT !.clockReads = @ + 1, !.timestamp = timestamp,
                  !.message = Message(timestamp, MethodChars(q.method), FullPath(q.url))]

SignedStart(r) ==
    /\ req[r].pc = "start" /\ req[r].method \in {"GET", "POST"}
    /\ TakesSigningPath(req[r])
    /\ ~DecodePem(env.KALSHI_PRIVATE_KEY).threw
    /\ req' = [req EXCEPT ![r] = [BeginAuth(@) EXCEPT !.pc = "import", !.imports = @ + 1]]
    /\ UNCHANGED <<env, deployed, now, keyVars, normVars, rankVars>>

\* atob throws inside importPrivateKey
SignedStartBadPem(r) ==
    /\ req[r].pc = "start" /\ req[r].method \in {"GET", "POST"}
    /\ TakesSigningPath(req[r])
    /\ DecodePem(env.KALSHI_PRIVATE_KEY).threw
    /\ req' = [req EXCEPT ![r] = CatchBlock(BeginAuth(@), "atob")]
    /\ UNCHANGED <<env, deployed, now, keyVars, normVars, rankVars>>

\* crypto.subtle.sign(...) is called on the message
CallSign(q) == [q EXCEPT !.pc = "signing", !.signs = @ + 1]

\* the first importKey resolves: signMessage is entered
ImportKeyResolved(r) ==
    /\ req[r].pc = "import"
    /\ importKey(DecodePem(env.KALSHI_PRIVATE_KEY).der).ok
    /\ req' = [req EXCEPT ![r] = CallSign(@)]
    /\ UNCHANGED <<env, deployed, now, keyVars, normVars, rankVars>>

\* the first importKey rejects: the catch wraps the bytes and imports again
ImportKeyRejected(r) ==
    /\ req[r].pc = "import"
    /\ ~importKey(DecodePem(env.KALSHI_PRIVATE_KEY).der).ok
    /\ req' = [req EXCEPT ![r] = [@ EXCEPT !.pc = "import-wrapped", !.imports = @ + 1]]
    /\ UNCHANGED <<env, deployed, now, keyVars, normVars, rankVars>>

\* the second importKey settles
WrappedImportSettled(r) ==
    /\ req[r].pc = "import-wrapped"
    /\ req' = [req EXCEPT ![r] =
          IF importKey(pkcs8Der(DecodePem(env.KALSHI_PRIVATE_KEY).der)).ok
          THEN CallSign(@)
          ELSE CatchBlock(@, "importKey")]
    /\ UNCHANGED <<env, deployed, now, keyVars, normVars, rankVars>>

ReturnAuthHeadersReadingClockAgain(q) ==
    [q EXCEPT !.clockReads = @ + 1,
              !.authHeaders = AuthHeaders(env.KALSHI_API_KEY_ID, NumToString(now),
                                          Signature(q.message))]

\* the headers getAuthHeaders returns
ReturnAuthHeaders(q) ==
    [q EXCEPT !.authHeaders =
        AuthHeaders(env.KALSHI_API_KEY_ID, q.timestamp, Signature(q.message))]

\* sign resolves; GET calls fetch, POST first awaits context.request.text()
SignResolved(r) ==
    /\ req[r].pc = "signing"
    /\ req' = [req EXCEPT ![r] =
          IF @.method = "GET" THEN IssueFetch(ReturnAuthHeaders(@))
          ELSE [ReturnAuthHeaders(@) EXCEPT !.pc = "read-body"]]
    /\ UNCHANGED <<env, deployed, now, keyVars, normVars, rankVars>>

SignRejected(r) ==
    /\ req[r].pc = "signing"
    /\ req' = [req EXCEPT ![r] = CatchBlock(@, "sign")]
    /\ UNCHANGED <<env, deployed, now, keyVars, normVars, rankVars>>

\* POST: the inbound body is read, fetch is called
BodyRead(r) ==
    /\ req[r].pc = "read-body"
    /\ req' = [req EXCEPT ![r] = IssueFetch(@)]
    /\ UNCHANGED <<env, deployed, now, keyVars, normVars, rankVars>>

\* fetch resolves with the upstream's response; response.text() is awaited
FetchResolved(r) ==
    /\ req[r].pc = "fetching"
    /\ \E a \in UpstreamAnswers :
          req' = [req EXCEPT ![r] = [@ EXCEPT !.pc = "reading", !.upstream = a]]
    /\ UNCHANGED <<env, deployed, now, keyVars, normVars, rankVars>>

FetchRejectedRetries(r) ==
    /\ req[r].pc = "fetching"
    /\ req' = [req EXCEPT ![r] =
          IF @.fetches < 2 THEN [@ EXCEPT !.fetches = @ + 1] ELSE CatchBlock(@, "fetch")]
    /\ UNCHANGED <<env, deployed, now, keyVars, normVars, rankVars>>

\* fetch rejects (DNS, connection)
FetchRejected(r) ==
    /\ req[r].pc = "fetching"
    /\ req' = [req EXCEPT ![r] = CatchBlock(@, "fetch")]
    /\ UNCHANGED <<env, deployed, now, keyVars, normVars, rankVars>>

\* the headers of the relayed response
RelayHeaders(q) ==
    IF q.method = "POST" THEN Spread(corsHeaders, JsonContentType)
    ELSE Spread(corsHeaders,
                JsonContentType @@
                ("Cache-Control" :> IF deployed = "signing" THEN "public, max-age=10"
                                    ELSE "public, max-age=30"))

\* new Response(data, {status: response.status, headers}) and its return,
\* or the catch block when the constructor throws
Relay(q) ==
    LET made == NewResponse(TextBody(q.upstream[2]), q.upstream[1], RelayHeaders(q))
    IN  IF made.threw THEN CatchBlock(q, "response") ELSE Finish(q, made.response)

\* response.text() resolves
TextResolved(r) ==
    /\ req[r].pc = "reading"
    /\ req' = [req EXCEPT ![r] = Relay(@)]
    /\ UNCHANGED <<env, deployed, now, keyVars, normVars, rankVars>>

\* response.text() rejects (the connection drops in the body)
TextRejected(r) ==
    /\ req[r].pc = "reading"
    /\ req' = [req EXCEPT ![r] = CatchBlock(@, "text")]
    /\ UNCHANGED <<env, deployed, now, keyVars, normVars, rankVars>>

Step(r) ==
    \/ Arrive(r)
    \/ OnRequestOptions(r)
    \/ PostWithoutCredentials(r)
    \/ GetUnsigned(r)
    \/ SignedStart(r)
    \/ SignedStartBadPem(r)
    \/ ImportKeyResolved(r)
    \/ ImportKeyRejected(r)
    \/ WrappedImportSettled(r)
    \/ SignResolved(r)
    \/ SignRejected(r)
    \/ BodyRead(r)
    \/ FetchResolved(r)
    \/ FetchRejected(r)
    \/ TextResolved(r)
    \/ TextRejected(r)

Init ==
    /\ ProxyInit
    /\ keyIn = <<>> /\ keyOut = <<>> /\ keyPc = "off"
    /\ market = <<>> /\ normalized = <<>> /\ normPc = "off"
    /\ RankOff

Next == Tick \/ \E r \in Requests : Step(r)

Spec == Init /\ [][Next]_vars

KeySpecInit ==
    /\ KeyInit
    /\ env = [KALSHI_API_KEY_ID |-> "undefined", KALSHI_PRIVATE_KEY |-> "undefined"]
    /\ deployed = "signing" /\ now = 0 /\ req = [r \in Requests |-> Idle]
    /\ market = <<>> /\ normalized = <<>> /\ normPc = "off"
    /\ RankOff

KeySpec == KeySpecInit /\ [][KeyNext]_vars

---------------------------------------------------------------------------
(* Market Normalizer *)

Abs(x) == IF x < 0 THEN -x ELSE x

RECURSIVE Gcd(_, _)
Gcd(a, b) == IF b = 0 THEN a ELSE Gcd(b, a % b)

\* The number a / b as JavaScript computes it from two integers: a fraction
\* in lowest terms <<numerator, denominator>> with a positive denominator;
\* <<1, 0>> and <<-1, 0>> are the infinities and <<0, 0>> is NaN
Quotient(a, b) ==
    IF b = 0 THEN << (IF a > 0 THEN 1 ELSE IF a < 0 THEN -1 ELSE 0), 0 >>
    ELSE LET g == Gcd(Abs(a), Abs(b))
             sgn == IF b < 0 THEN -1 ELSE 1
         IN  << (sgn * a) \div g, (sgn * b) \div g >>

Number(n) == <<n, 1>>

\* (cents / 100).toFixed(2) for integer cents
ToFixed2(cents) ==
    LET a == Abs(cents)
    IN  (IF cents < 0 THEN <<"-">> ELSE <<>>) \o NumToString(a \div 100) \o
        <<".", DigitChar((a % 100) \div 10), DigitChar(a % 10)>>

Change24hUnguarded(m) == Quotient(m.last_price - m.previous_price, m.previous_price)

\* previous_price > 0 ? (last_price - previous_price) / previous_price : 0
Change24h(m) ==
    IF m.previous_price > 0
    THEN Quotient(m.last_price - m.previous_price, m.previous_price)
    ELSE Number(0)

\* market.volume_24h ?? 0
Volume24hOrZero(m) == IF "volume_24h" \in DOMAIN m THEN m.volume_24h ELSE 0

\* the record normalizeMarket returns: {...market, aliases and derived fields}
normalizeMarket(m) ==
    Spread(m,
        [ id |-> m.ticker,
          question |-> m.title,
          outcomes |-> <<"Yes", "No">>,
          outcomePrices |-> <<ToFixed2(m.yes_ask), ToFixed2(m.no_ask)>>,
          yesPrice |-> Quotient(m.yes_ask, 100),
          noPrice |-> Quotient(m.no_ask, 100),
          change24h |-> Change24h(m),
          endDate |-> m.close_time,
          volume_24h |-> Volume24hOrZero(m) ])

\* raw markets as the upstream may send them; volume_24h may be missing
PriceInputs == -1..MaxCents
AskInputs == {0, MaxCents, 100}
VolumeInputs == {0, 7}

RawMarkets ==
    LET base == [ ticker : {"KX-A"}, title : {"Will A happen?"},
                  yes_ask : AskInputs, no_ask : AskInputs,
                  last_price : PriceInputs, previous_price : PriceInputs,
                  close_time : {"2030-01-01T00:00:00Z"} ]
    IN  base \cup { Spread(b, [volume_24h |-> v]) : b \in base, v \in VolumeInputs }

NormInit ==
    /\ market \in RawMarkets
    /\ normalized = <<>>
    /\ normPc = "given"
    /\ env = [KALSHI_API_KEY_ID |-> "undefined", KALSHI_PRIVATE_KEY |-> "undefined"]
    /\ deployed = "signing" /\ now = 0 /\ req = [r \in Requests |-> Idle]
    /\ keyIn = <<>> /\ keyOut = <<>> /\ keyPc = "off"
    /\ RankOff

\* normalizeMarket(market) returns
Normalize ==
    /\ normPc = "given"
    /\ normalized' = normalizeMarket(market)
    /\ normPc' = "returned"
    /\ UNCHANGED <<market, proxyVars, keyVars, rankVars>>

NormNext == Normalize

NormSpec == NormInit /\ [][NormNext]_vars

---------------------------------------------------------------------------
(* Market Ranking Engine *)

\* limit: number = 10
DefaultLimit == 10

\* market.liquidity ?? 0
LiquidityOrZero(m) == IF "liquidity" \in DOMAIN m THEN m.liquidity ELSE 0

\* market.open_interest ?? 0
OpenInterestOrZero(m) == IF "open_interest" \in DOMAIN m THEN m.open_interest ELSE 0

isValidActiveMarketStatusOnly(m) == m.status = "active" \/ m.status = "open"

isValidActiveMarket(m) ==
    IF m.status # "active" /\ m.status # "open" THEN FALSE
    ELSE IF Volume24hOrZero(m) = 0 /\ LiquidityOrZero(m) = 0 THEN FALSE
    ELSE TRUE

\* (m) => m.close_time && new Date(m.close_time) > now; close_time is held as
\* the instant it parses to
ClosesAfter(m, instant) == m.close_time > instant

\* Array.prototype.sort is stable: an element goes after every element that
\* does not compare greater than it
RECURSIVE InsertByKey(_, _)
InsertByKey(sorted, x) ==
    IF sorted = <<>> THEN <<x>>
    ELSE IF sorted[Len(sorted)].key <= x.key THEN Append(sorted, x)
    ELSE Append(InsertByKey(SubSeq(sorted, 1, Len(sorted) - 1), x), sorted[Len(sorted)])

RECURSIVE StableSort(_)
StableSort(keyed) ==
    IF keyed = <<>> THEN <<>>
    ELSE InsertByKey(StableSort(SubSeq(keyed, 1, Len(keyed) - 1)), keyed[Len(keyed)])

SortedBy(arr, keys) ==
    LET sorted == StableSort([i \in 1..Len(arr) |-> [key |-> keys[i], item |-> arr[i]]])
    IN  [i \in 1..Len(arr) |-> sorted[i].item]

TrendingOrderAscending(arr) ==
    SortedBy(arr, [i \in 1..Len(arr) |-> Volume24hOrZero(arr[i])])

\* .sort((a, b) => (b.volume_24h ?? 0) - (a.volume_24h ?? 0))
TrendingOrder(arr) ==
    SortedBy(arr, [i \in 1..Len(arr) |-> 0 - Volume24hOrZero(arr[i])])

\* .sort((a, b) => new Date(a.close_time).getTime() - new Date(b.close_time).getTime())
EndingSoonOrder(arr) ==
    SortedBy(arr, [i \in 1..Len(arr) |-> arr[i].close_time])

\* score = 0.5 log10(v + 1) + 0.3 log10(l + 1) + 0.2 log10(o + 1), held as
\* 10^(10 score) = (v + 1)^5 (l + 1)^3 (o + 1)^2, which orders and ties as the
\* score does for v, l, o >= -1 (the score is -Infinity exactly when it is 0)
Score(m) ==
    LET v == Volume24hOrZero(m) + 1
        l == LiquidityOrZero(m) + 1
        o == OpenInterestOrZero(m) + 1
    IN  (v * v * v * v * v) * (l * l * l) * (o * o)

\* .sort((a, b) => b.score - a.score) on {market, score} records
HotOrder(arr) ==
    SortedBy(arr, [i \in 1..Len(arr) |-> 0 - arr[i].score])

Min(a, b) == IF a < b THEN a ELSE b
Max(a, b) == IF a > b THEN a ELSE b

\* arr.slice(0, end)
Slice(arr, end) ==
    SubSeq(arr, 1, IF end < 0 THEN Max(Len(arr) + end, 0) ELSE Min(end, Len(arr)))

\* the limit parameter with its default
Limit(arg) == IF arg.given THEN arg.value ELSE DefaultLimit

Views == {"trending", "endingSoon", "hot"}

LimitArgs == {[given |-> FALSE]} \cup {[given |-> TRUE, value |-> n] : n \in 0..MaxLimit}

\* the optional field of a raw market: absent, or the value given
Optional(name, values) ==
    IF values = {} THEN [f \in {} |-> 0] ELSE (name :> CHOOSE v \in values : TRUE)

\* what the upstream may send for a market
MarketKinds ==
    { [status |-> "open",   vol |-> {5},  liq |-> {0}, oi |-> {0}, close |-> 20],
      [status |-> "open",   vol |-> {5},  liq |-> {3}, oi |-> {1}, close |-> 12],
      [status |-> "active", vol |-> {9},  liq |-> {},  oi |-> {},  close |-> 5],
      [status |-> "open",   vol |-> {},   liq |-> {3}, oi |-> {0}, close |-> 15],
      [status |-> "open",   vol |-> {0},  liq |-> {0}, oi |-> {1}, close |-> 20],
      [status |-> "open",   vol |-> {},   liq |-> {},  oi |-> {},  close |-> 20],
      [status |-> "closed", vol |-> {9},  liq |-> {3}, oi |-> {1}, close |-> 20],
      [status |-> "open",   vol |-> {-1}, liq |-> {0}, oi |-> {0}, close |-> 20],
      [status |-> "open",   vol |-> {3},  liq |-> {0}, oi |-> {0}, close |-> 10] }

Ticker(i) == <<"K", DigitChar(i)>>

RawMarketOf(kind, i) ==
    [ ticker |-> Ticker(i), title |-> "Will it happen?", status |-> kind.status,
      yes_ask |-> 40, no_ask |-> 61, last_price |-> 3, previous_price |-> 2,
      close_time |-> kind.close ]
    @@ Optional("volume_24h", kind.vol)
    @@ Optional("liquidity", kind.liq)
    @@ Optional("open_interest", kind.oi)

\* response.markets || []
FetchedLists ==
    UNION { { [i \in 1..n |-> RawMarketOf(ks[i], i)] : ks \in [1..n -> MarketKinds] }
            : n \in 0..MaxMarkets }

RankInit ==
    /\ view \in Views
    /\ limitArg \in LimitArgs
    /\ fetched = <<>> /\ chain = <<>> /\ holds = "none"
    /\ result = <<>> /\ rankPc = "call"
    /\ env = [KALSHI_API_KEY_ID |-> "undefined", KALSHI_PRIVATE_KEY |-> "undefined"]
    /\ deployed = "signing" /\ now = 10 /\ req = [r \in Requests |-> Idle]
    /\ keyIn = <<>> /\ keyOut = <<>> /\ keyPc = "off"
    /\ market = <<>> /\ normalized = <<>> /\ normPc = "off"

rankFrame == <<view, limitArg, proxyVars, keyVars, normVars>>

\* the array the method chain is applied to
Held == IF holds = "fetched" THEN fetched ELSE chain

\* a method that returns a new array (map, filter): the chain moves on to it
Allocates(arr) ==
    /\ chain' = arr
    /\ holds' = "chain"
    /\ fetched' = fetched

\* a method that works in place (sort): the array held is overwritten
InPlace(arr) ==
    /\ IF holds = "fetched"
       THEN fetched' = arr /\ chain' = chain
       ELSE chain' = arr /\ fetched' = fetched
    /\ holds' = holds

\* const markets = await marketsApi.getMarkets({status: "open", limit: 200})
GetMarketsResolved ==
    /\ rankPc = "call"
    /\ fetched' \in FetchedLists
    /\ holds' = "fetched"
    /\ rankPc' = "fetched"
    /\ UNCHANGED <<chain, result, rankFrame>>

\* request() throws KalshiAPIError: the view rejects
GetMarketsRejected ==
    /\ rankPc = "call"
    /\ rankPc' = "rejected"
    /\ UNCHANGED <<fetched, chain, holds, result, rankFrame>>

MapNormalizeInPlace ==
    /\ rankPc = "fetched"
    /\ InPlace([i \in 1..Len(Held) |-> normalizeMarket(Held[i])])
    /\ rankPc' = "mapped"
    /\ UNCHANGED <<result, rankFrame>>

\* markets.map(normalizeMarket)
MapNormalize ==
    /\ rankPc = "fetched"
    /\ Allocates([i \in 1..Len(Held) |-> normalizeMarket(Held[i])])
    /\ rankPc' = "mapped"
    /\ UNCHANGED <<result, rankFrame>>

\* .filter(isValidActiveMarket)
FilterActive ==
    /\ rankPc = "mapped"
    /\ Allocates(SelectSeq(Held, isValidActiveMarket))
    /\ rankPc' = IF view = "trending" THEN "narrowed" ELSE "filtered"
    /\ UNCHANGED <<result, rankFrame>>

\* getEndingSoonMarkets: .filter((m) => m.close_time && new Date(m.close_time) > now)
FilterFuture ==
    /\ rankPc = "filtered" /\ view = "endingSoon"
    /\ LET future(m) == ClosesAfter(m, now)
       IN  Allocates(SelectSeq(Held, future))
    /\ rankPc' = "narrowed"
    /\ UNCHANGED <<result, rankFrame>>

\* getHotMarkets: .map((market) => ({market, score}))
ScoreHot ==
    /\ rankPc = "filtered" /\ view = "hot"
    /\ Allocates([i \in 1..Len(Held) |-> [market |-> Held[i], score |-> Score(Held[i])]])
    /\ rankPc' = "narrowed"
    /\ UNCHANGED <<result, rankFrame>>

\* .sort(comparator) of the view
SortView ==
    /\ rankPc = "narrowed"
    /\ InPlace(CASE view = "trending" -> TrendingOrder(Held)
                 [] view = "endingSoon" -> EndingSoonOrder(Held)
                 [] OTHER -> HotOrder(Held))
    /\ rankPc' = "sorted"
    /\ UNCHANGED <<result, rankFrame>>

\* .slice(0, limit), for getHotMarkets then .map((s) => s.market); the view
\* resolves with it
ReturnView ==
    /\ rankPc = "sorted"
    /\ LET cut == Slice(Held, Limit(limitArg))
       IN  result' = IF view = "hot" THEN [i \in 1..Len(cut) |-> cut[i].market] ELSE cut
    /\ rankPc' = "returned"
    /\ UNCHANGED <<fetched, chain, holds, rankFrame>>

RankNext ==
    \/ GetMarketsResolved
    \/ GetMarketsRejected
    \/ MapNormalize
    \/ FilterActive
    \/ FilterFuture
    \/ ScoreHot
    \/ SortView
    \/ ReturnView

RankSpec == RankInit /\ [][RankNext]_vars

---------------------------------------------------------------------------
(* Properties of the proxy *)

Done(r) == req[r].pc = "done"

AuthHeaderNames == {"KALSHI-ACCESS-KEY", "KALSHI-ACCESS-TIMESTAMP", "KALSHI-ACCESS-SIGNATURE"}

CarriesAuth(h) == AuthHeaderNames \subseteq DOMAIN h
CarriesNoAuth(h) == AuthHeaderNames \cap DOMAIN h = {}

Absent(v) == v = "undefined" \/ v = ""
BothCredentials == ~Absent(env.KALSHI_API_KEY_ID) /\ ~Absent(env.KALSHI_PRIVATE_KEY)

\* C1: a POST when either credential is absent or empty is answered 401 with
\* a JSON error body, and no upstream fetch is ever issued for it.
C1_PostWithoutCredentialsIs401 ==
    \A r \in Requests :
        (req[r].method = "POST" /\ ~BothCredentials) =>
            /\ req[r].fetches = 0
            /\ req[r].pc \in {"start", "done"}
            /\ Done(r) =>
                  /\ req[r].response.status = 401
                  /\ req[r].response.body.kind = "json"
                  /\ "error" \in DOMAIN req[r].response.body.json
                  /\ ~req[r].threw

C1_Witness ==
    \E r \in Requests :
        /\ req[r].method = "POST" /\ Done(r)
        /\ Absent(env.KALSHI_PRIVATE_KEY) /\ ~Absent(env.KALSHI_API_KEY_ID)
        /\ req[r].response.status = 401 /\ req[r].fetches = 0

\* C2 as stated: the upstream request of a GET carries the three auth headers
\* if and only if both credentials are present, and a GET with a credential
\* missing is still forwarded, unsigned.
C2_AuthIffCredentials ==
    \A r \in Requests :
        (req[r].method = "GET" /\ req[r].fetches > 0) =>
            /\ CarriesAuth(req[r].sent.headers) <=> BothCredentials
            /\ ~BothCredentials =>
                  CarriesNoAuth(req[r].sent.headers) /\ req[r].signs = 0

\* C2 amended: in the signing module the upstream request of a GET carries
\* the three auth headers iff both credentials are present; the plain module
\* never signs. An unsigned GET is forwarded at once, with none of the three
\* headers, no clock read, no key import and no signing.
C2_AuthIffSigningModuleAndCredentials ==
    \A r \in Requests :
        req[r].method = "GET" =>
            /\ req[r].fetches > 0 =>
                  /\ CarriesAuth(req[r].sent.headers)
                        <=> (deployed = "signing" /\ BothCredentials)
                  /\ CarriesAuth(req[r].sent.headers)
                        \/ CarriesNoAuth(req[r].sent.headers)
            /\ (deployed = "plain" \/ ~BothCredentials) =>
                  /\ req[r].pc # "start" => req[r].fetches = 1
                  /\ CarriesNoAuth(req[r].sent.headers)
                  /\ req[r].signs = 0 /\ req[r].imports = 0 /\ req[r].clockReads = 0

C2_Witness ==
    \E r, o \in Requests :
        /\ req[r].method = "GET" /\ req[r].fetches = 1
        /\ CarriesAuth(req[r].sent.headers) /\ req[r].signs = 1
        /\ req[o].method = "GET" /\ Done(o) /\ req[o].response.status = 200

C2_WitnessUnsigned ==
    \E r \in Requests :
        /\ req[r].method = "GET" /\ req[r].fetches = 1 /\ deployed = "signing"
        /\ Absent(env.KALSHI_API_KEY_ID) /\ ~Absent(env.KALSHI_PRIVATE_KEY)
        /\ CarriesNoAuth(req[r].sent.headers)

\* C3: no GET or POST handler ends by throwing; an invocation in which
\* decoding or importing the key, signing, the fetch, reading the body or
\* building the relayed response failed ends with a 500 and a JSON error body.
C3_FailuresBecome500 ==
    \A r \in Requests :
        /\ ~req[r].threw
        /\ (Done(r) /\ req[r].method \in {"GET", "POST"}) =>
              /\ req[r].response.status \in 200..599
              /\ req[r].fault # "none" =>
                    /\ req[r].response.status = 500
                    /\ req[r].response.body.kind = "json"
                    /\ "error" \in DOMAIN req[r].response.body.json
              /\ (req[r].fetches = 1 /\ req[r].upstream[1] = 0) =>
                    req[r].response.status = 500
              /\ (req[r].imports > 0 /\ req[r].fetches = 0) =>
                    req[r].response.status = 500

C3_Witness ==
    \E r, o \in Requests :
        /\ Done(r) /\ req[r].method = "GET" /\ req[r].fault = "fetch"
        /\ req[r].response.status = 500
        /\ Done(o) /\ req[o].method = "POST" /\ req[o].fault = "sign"
        /\ req[o].response.status = 500

\* C4 as stated: once the fetch has resolved with a response and its body was
\* read, the handler returns the upstream's status and body, whatever the
\* status.
C4_RelaysEveryStatus ==
    \A r \in Requests :
        (Done(r) /\ req[r].upstream[1] # 0 /\ req[r].fault # "text") =>
            /\ req[r].response.status = req[r].upstream[1]
            /\ req[r].response.body = TextBody(req[r].upstream[2])

\* C5: OPTIONS is answered 204 with the CORS headers and no body, whatever
\* the credentials, with no fetch, key import, signing or clock read.
C5_OptionsIs204 ==
    \A r \in Requests :
        req[r].method = "OPTIONS" =>
            /\ req[r].pc \in {"start", "done"}
            /\ req[r].fetches = 0 /\ req[r].imports = 0
            /\ req[r].signs = 0 /\ req[r].clockReads = 0
            /\ Done(r) =>
                  /\ req[r].response.status = 204
                  /\ req[r].response.body = NullBody
                  /\ req[r].response.headers = corsHeaders
                  /\ ~req[r].threw

C5_Witness ==
    \E r \in Requests :
        /\ req[r].method = "OPTIONS" /\ Done(r) /\ BothCredentials
        /\ req[r].response.status = 204

\* the own inputs of an invocation: the request, and what its own awaited
\* calls answered
OwnInputs(r) == <<req[r].method, req[r].url, req[r].body, req[r].upstream, req[r].fault>>

Relayed(r) ==
    /\ Done(r) /\ req[r].method \in {"GET", "POST"}
    /\ req[r].response.body.kind = "text"

C6_AtMostOneFetch ==
    \A r \in Requests :
        /\ req[r].fetches <= 1
        /\ Relayed(r) => req[r].fetches = 1
        /\ \A o \in Requests :
              (Done(r) /\ Done(o) /\ OwnInputs(r) = OwnInputs(o)) =>
                  req[r].response = req[o].response

C6_StepsAreLocal ==
    \A r \in Requests :
        req'[r] # req[r] => \A o \in Requests \ {r} : req'[o] = req[o]

\* C6: every GET or POST issues at most one upstream fetch, exactly one when
\* it is answered with a relayed response; a handler step changes only its
\* own invocation, and two finished invocations with the same own inputs have
\* the same response, however they were interleaved.
C6_OneFetchPerRequest == [](C6_AtMostOneFetch) /\ [][C6_StepsAreLocal]_vars

C6_Witness ==
    \E r, o \in Requests :
        /\ r # o /\ Relayed(r) /\ req[r].fetches = 1
        /\ Done(o) /\ req[o].fault = "fetch" /\ req[o].fetches = 1

IsDigit(c) == c \in {"0", "1", "2", "3", "4", "5", "6", "7", "8", "9"}

\* the leading run of digits of a string
DigitPrefix(s) ==
    LET stops == {i \in 1..Len(s) : ~IsDigit(s[i])}
    IN  IF stops = {} THEN s
        ELSE SubSeq(s, 1, (CHOOSE i \in stops : \A j \in stops : i <= j) - 1)

\* C7: a signed call reads the clock once, and its timestamp header is the
\* timestamp that starts the signed message, on the returned headers and on
\* the request sent upstream.
C7_OneTimestamp ==
    \A r \in Requests :
        /\ req[r].clockReads <= 1
        /\ req[r].authHeaders # NoHeaders =>
              /\ req[r].clockReads = 1
              /\ req[r].authHeaders["KALSHI-ACCESS-TIMESTAMP"] = DigitPrefix(req[r].message)
              /\ req[r].authHeaders["KALSHI-ACCESS-SIGNATURE"].over = req[r].message
              /\ req[r].fetches > 0 =>
                    /\ req[r].sent.headers["KALSHI-ACCESS-TIMESTAMP"]
                          = DigitPrefix(req[r].message)
                    /\ req[r].sent.headers["KALSHI-ACCESS-SIGNATURE"].over = req[r].message

\* the clock moved on between the read and the return of the headers
C7_Witness ==
    \E r \in Requests :
        /\ req[r].fetches = 1 /\ CarriesAuth(req[r].sent.headers)
        /\ req[r].authHeaders["KALSHI-ACCESS-TIMESTAMP"] # NumToString(now)
        /\ req[r].pc = "fetching"

\* C8: the signed message is timestamp, method, "/trade-api/v2/" and the
\* sub-path, without the query; the upstream URL is the base, "/", the same
\* sub-path and the request's query; requests that differ only in their query
\* and have the same timestamp sign the same message.
C8_MessageExcludesQuery ==
    \A r \in Requests :
        /\ req[r].message # <<>> =>
              \E p \in SubPaths, q \in Queries :
                  /\ req[r].url = MountPrefix \o p \o q
                  /\ req[r].message =
                        req[r].timestamp \o MethodChars(req[r].method) \o
                        <<"/","t","r","a","d","e","-","a","p","i","/","v","2","/">> \o p
                  /\ \A i \in 1..Len(req[r].message) : req[r].message[i] # "?"
                  /\ req[r].fetches > 0 =>
                        req[r].sent.url = KALSHI_API_URL \o <<"/">> \o p \o q
        /\ (req[r].fetches > 0 /\ req[r].message = <<>>) =>
              \E p \in SubPaths, q \in Queries :
                  /\ req[r].url = MountPrefix \o p \o q
                  /\ req[r].sent.url = KALSHI_API_URL \o <<"/">> \o p \o q
        /\ \A o \in Requests :
              ( /\ req[r].message # <<>> /\ req[o].message # <<>>
                /\ req[r].timestamp = req[o].timestamp
                /\ req[r].method = req[o].method
                /\ SplitHead(req[r].url, "?") = SplitHead(req[o].url, "?") )
              => req[r].message = req[o].message

C8_Witness ==
    \E r, o \in Requests :
        /\ req[r].fetches = 1 /\ req[o].fetches = 1
        /\ req[r].message # <<>> /\ req[r].message = req[o].message
        /\ req[r].url # req[o].url
        /\ req[r].sent.url # req[o].sent.url
        /\ IndexOf(req[r].url, <<"?">>) > 0 /\ IndexOf(req[o].url, <<"?">>) > 0

---------------------------------------------------------------------------
(* Properties of the key importer *)

\* C9 as stated: the synthesized structure is the 26-byte header followed by
\* the n original bytes, the outer SEQUENCE declares the number of bytes that
\* follow its length field, and the OCTET STRING declares n.
C9_WrapperWellFormed ==
    keyPc \in {"wrapped", "rejected"} =>
        /\ Len(keyOut) = 26 + Len(keyIn)
        /\ SubSeq(keyOut, 27, Len(keyOut)) = keyIn
        /\ Len16(keyOut, 3) = Len(keyOut) - 4
        /\ Len16(keyOut, 25) = Len(keyIn)

---------------------------------------------------------------------------
(* Properties of the market normalizer *)

\* C10 as stated: change24h is 0 when previous_price = 0 and
\* (last_price - previous_price) / previous_price for every other
\* previous_price.
C10_ChangeForEveryNonZeroPrevious ==
    normPc = "returned" =>
        IF market.previous_price = 0
        THEN normalized.change24h = <<0, 1>>
        ELSE normalized.change24h[1] * market.previous_price
                = (market.last_price - market.previous_price) * normalized.change24h[2]
             /\ normalized.change24h[2] > 0

\* C10 amended: change24h is 0 when previous_price <= 0 and
\* (last_price - previous_price) / previous_price for every previous_price > 0.
C10_ChangeForPositivePrevious ==
    normPc = "returned" =>
        IF market.previous_price <= 0
        THEN normalized.change24h = <<0, 1>>
        ELSE normalized.change24h[1] * market.previous_price
                = (market.last_price - market.previous_price) * normalized.change24h[2]
             /\ normalized.change24h[2] > 0

C10_Witness ==
    /\ normPc = "returned"
    /\ market.previous_price = 2 /\ market.last_price = 3
    /\ normalized.change24h = <<1, 2>>

C10_WitnessZeroPrevious ==
    /\ normPc = "returned"
    /\ market.previous_price = 0 /\ market.last_price = 0
    /\ normalized.change24h = <<0, 1>>

---------------------------------------------------------------------------
(* Properties of the ranking views *)

FieldOrZero(m, name) == IF name \in DOMAIN m THEN m[name] ELSE 0

OpenOrActive(m) == m.status = "active" \/ m.status = "open"

\* status is active or open and (volume_24h > 0 or liquidity > 0)
ActiveWithPositiveActivity(m) ==
    OpenOrActive(m) /\ (FieldOrZero(m, "volume_24h") > 0 \/ FieldOrZero(m, "liquidity") > 0)

\* status is active or open and (volume_24h # 0 or liquidity # 0)
ActiveWithNonZeroActivity(m) ==
    OpenOrActive(m) /\ (FieldOrZero(m, "volume_24h") # 0 \/ FieldOrZero(m, "liquidity") # 0)

\* the markets the view orders, before it truncates
Candidates ==
    IF view = "hot" THEN [i \in 1..Len(chain) |-> chain[i].market] ELSE chain

HasTicker(arr, t) == \E j \in 1..Len(arr) : arr[j].ticker = t

Ordered == rankPc \in {"sorted", "returned"}

\* C11 as stated: every market a view returns is active or open with
\* volume_24h > 0 or liquidity > 0, and every fetched market that is so (and,
\* for ending-soon, closes strictly after now) is among the view's candidates.
C11_ReturnedHavePositiveActivity ==
    Ordered =>
        /\ \A k \in 1..Len(result) : ActiveWithPositiveActivity(result[k])
        /\ \A i \in 1..Len(fetched) :
              ( /\ ActiveWithPositiveActivity(fetched[i])
                /\ view = "endingSoon" => fetched[i].close_time > now )
              => HasTicker(Candidates, fetched[i].ticker)

\* C11 amended: the same with "volume_24h # 0 or liquidity # 0"; and the
\* candidates are exactly those fetched markets.
C11_ReturnedHaveNonZeroActivity ==
    Ordered =>
        /\ \A k \in 1..Len(result) :
              /\ ActiveWithNonZeroActivity(result[k])
              /\ view = "endingSoon" => result[k].close_time > now
              /\ HasTicker(Candidates, result[k].ticker)
        /\ \A i \in 1..Len(fetched) :
              ( /\ ActiveWithNonZeroActivity(fetched[i])
                /\ view = "endingSoon" => fetched[i].close_time > now )
              <=> HasTicker(Candidates, fetched[i].ticker)

C11_Witness ==
    /\ rankPc = "returned" /\ view = "endingSoon" /\ Len(result) = 2
    /\ Len(fetched) = 3
    /\ \E i \in 1..3 : ~OpenOrActive(fetched[i]) \/ fetched[i].close_time <= now

\* the limit asked for
RequestedLimit == IF limitArg.given THEN limitArg.value ELSE 10

\* the fetched markets that pass the filter of the view
Qualifying == {i \in 1..Len(fetched) : ActiveWithNonZeroActivity(fetched[i])}

\* the place of a qualifying market by descending volume_24h, ties in fetch order
TrendingPlace(i) ==
    Cardinality({ j \in Qualifying :
        \/ FieldOrZero(fetched[j], "volume_24h") > FieldOrZero(fetched[i], "volume_24h")
        \/ /\ FieldOrZero(fetched[j], "volume_24h") = FieldOrZero(fetched[i], "volume_24h")
           /\ j < i }) + 1

NormalizedFieldNames ==
    {"id", "question", "outcomes", "outcomePrices", "yesPrice", "noPrice", "change24h", "endDate"}

C13_RawMarketsKeepTheirShape ==
    rankPc \notin {"call", "rejected"} =>
        /\ \A i \in 1..Len(fetched) : DOMAIN fetched[i] \cap NormalizedFieldNames = {}
        /\ rankPc \in {"mapped"} =>
              \A i \in 1..Len(chain) : NormalizedFieldNames \subseteq DOMAIN chain[i]

C13_FetchedNeverChanges == rankPc # "call" => fetched' = fetched

\* C13: once fetched, the list keeps its elements, their order and every field
\* of every raw market while the view normalizes, filters, sorts and
\* truncates; the normalized markets are new records.
C13_InputsUnchanged == [](C13_RawMarketsKeepTheirShape) /\ [][C13_FetchedNeverChanges]_vars

\* the view reordered and truncated, and the fetched list is as it was fetched
C13_Witness ==
    /\ rankPc = "returned" /\ view = "hot"
    /\ Len(fetched) = 3 /\ Len(chain) = 3 /\ Len(result) = 2
    /\ chain[1].market.ticker # fetched[1].ticker
    /\ fetched[1].ticker = Ticker(1) /\ fetched[2].ticker = Ticker(2)
    /\ "volume_24h" \notin DOMAIN fetched[1]

=============================================================================
